---- MODULE Spec2Model ----
(***************************************************************************)
(* Model of the test-execution engine of flood element:                    *)
(*   - Test.runWithCancellation and its helpers (one iteration of a test   *)
(*     script: setup, hooks, step loop, recovery, teardown, summary);      *)
(*   - Looper (the loop/duration policy that repeats iterations).          *)
(*   - Runner.runTestScript and Runner.stop, which drive the iterations;   *)
(*   - PersistentRunner, which reruns the script on command.               *)
(* The engine is single-threaded JavaScript: every action below is the     *)
(* code between two awaits of one async function.  Functions that the      *)
(* engine has stopped waiting for (a step body that lost the race against  *)
(* the cancellation token) keep running and are modelled as frames.        *)
(***************************************************************************)
EXTENDS Integers, Sequences, FiniteSets, TLC

VARIABLES
    \* ---- the script and the arguments of Test.run ----
    steps,            \* Test.steps: the script's steps (options of each)
    iteration,        \* the iteration number passed to Test.run
    recoverySteps,    \* Test.recoverySteps: the steps with a recovery sequence
    \* ---- Test ----
    settings,         \* Test.settings
    failed,           \* Test.failed
    subTitle,         \* Test.subTitle
    summaryStep,      \* Test.summaryStep
    attached,         \* requestInterceptor is attached to the page
    \* ---- Browser ----
    browserSettings,  \* browser.settings
    customContext,    \* browser.customContext (0: not set)
    \* ---- StepIterator and the steps' mutable parts ----
    cursor,           \* index of the next step StepIterator.run hands out
    cur,              \* the step the executor callback is running (0: none)
    repeatIter,       \* step.options.repeat.iteration of every step
    prop,             \* step.prop of every step
    \* ---- control ----
    pc,               \* position of runWithCancellation
    hookIdx,          \* runHookFn: index of the hook being run
    hookRunning,      \* runHookFn awaits the race of a hook function
    hooksAbandoned,   \* hook functions that timed out and are still running
    hookCommands,     \* commands the awaited hook function has started
    hookInCommand,    \* the awaited hook function is inside a command
    hookBefore,       \* browser.settings when runHookFn started its first hook
    notifications,    \* the step notifications the observer chain received
    frames,           \* activations of runStep, in the order they started
    cancelRequested,  \* cancelToken.isCancellationRequested
    thrown,           \* the try block of runWithCancellation threw
    cause,            \* what threw: "directive", "data", "recovery" or the
                      \* lifecycle point of the hook ("none": nothing threw)
    outcome,          \* the promise of runWithCancellation
    cleanup,          \* calls made by the finally block, in order
    \* ---- Looper ----
    loopCount,        \* Looper.loopCount
    duration,         \* settings.duration given to the constructor
    iterations,       \* Looper.iterations
    cancelled,        \* Looper.cancelled
    timerArmed,       \* the duration timer is pending
    lpc,              \* position of Looper.run
    calls,            \* arguments of the iterator invocations so far
    returned,         \* the value Looper.run returned (-1: none)
    running,          \* the `running` argument of the constructor
    stopCalled,       \* Looper.stop() has been called
    timerFired,       \* the duration timer has fired
    stopCalls,        \* the calls of Looper.stop() so far
    inProgress,       \* iterator invocations that have not settled
    \* ---- Runner ----
    rpc,              \* position of Runner.runTestScript
    runnerRunning,    \* Runner.running
    cancelCalls,      \* the calls of Test.cancel() so far
    \* ---- PersistentRunner ----
    prc,              \* position of PersistentRunner.run
    testScriptFactory,\* PersistentRunner.testScriptFactory is set
    clientPromise,    \* PersistentRunner.clientPromise is set
    stopped,          \* PersistentRunner.stopped
    immediates,       \* callbacks queued by setImmediate, not yet run
    reruns,           \* 'rerun-test' events the commander has emitted
    runs              \* activations of runTestScript, in starting order

testVars == <<steps, iteration, recoverySteps, settings, failed, subTitle,
              summaryStep, attached, browserSettings, customContext, cursor,
              cur, repeatIter, prop, pc, hookIdx, hookRunning, hooksAbandoned,
              hookCommands, hookInCommand, hookBefore, notifications,
              frames, cancelRequested, thrown, cause, outcome,
              cleanup>>

looperVars == <<loopCount, duration, iterations, cancelled, timerArmed, lpc,
                calls, returned, running, stopCalled, timerFired, stopCalls,
                inProgress>>

runnerVars == <<rpc, runnerRunning, cancelCalls>>

persistentVars == <<prc, testScriptFactory, clientPromise, stopped,
                    immediates, reruns, runs>>

vars == <<testVars, looperVars, runnerVars, persistentVars>>

(***************************************************************************)
(* Bounds of the model.                                                    *)
(***************************************************************************)
MaxSteps == 2        \* longest script
MaxRepeat == 3       \* the count of a repeat descriptor
MaxHooks == 1        \* hooks registered per lifecycle point
MaxIteration == 2    \* run is given iteration 1 or iteration MaxIteration
MaxTries == 2        \* the configured tries (settings.tries, recovery tries)
MaxLoopCount == 3    \* largest settings.loopCount
MaxIterations == 4   \* an unbounded Looper is followed this far
MaxStops == 2        \* calls of Looper.stop() on one Looper
MaxCommands == 1     \* commands a step body runs on the execution target

(***************************************************************************)
(* Steps, settings and summary rows.                                       *)
(***************************************************************************)
NoOptions ==
    [skip |-> FALSE, pending |-> FALSE, once |-> FALSE, predicate |-> FALSE,
     condition |-> FALSE, repeat |-> 0, waitTimeout |-> 0]

\* The step options the model draws scripts from.  repeat = 0 stands for a
\* step without a repeat descriptor, repeat = c for {count: c, iteration: 0};
\* waitTimeout = 0 for a step that does not override the wait timeout (the
\* step with a predicate is also the one that overrides it).  condition is
\* the conditional predicate that callCondition evaluates against the target.
StepOptions ==
    {NoOptions,
     [NoOptions EXCEPT !.skip = TRUE],
     [NoOptions EXCEPT !.pending = TRUE],
     [NoOptions EXCEPT !.once = TRUE],
     [NoOptions EXCEPT !.predicate = TRUE, !.waitTimeout = MaxHooks + 2],
     [NoOptions EXCEPT !.condition = TRUE]}
    \cup {[NoOptions EXCEPT !.repeat = MaxRepeat]}

StepResult == {"PASSED", "FAILED", "SKIPPED", "UNEXECUTED"}

Row(s, r) == [stepName |-> s, result |-> r]

EmptySubTitle == [loop |-> 0, recovery |-> 0]

NoProp == [executed |-> FALSE, recoveryTries |-> 0]

\* hook.waitTimeout of the i-th hook of a lifecycle point
HookWaitTimeout(i) == i

HookPhases == {"beforeAll", "beforeEach", "afterEach", "afterAll"}

Last(seq) == seq[Len(seq)]

\* a notification of the observer chain that carries a step
Notification(k, s) == [kind |-> k, step |-> s]

(***************************************************************************)
(* Test.summarizeStepBeforeRun                                             *)
(***************************************************************************)
summarizeStepBeforeRun(summary, s, it) ==
    IF steps[s].pending \/ (steps[s].once /\ it > 1)
    THEN Append(summary, Row(s, "UNEXECUTED"))
    ELSE IF steps[s].skip
         THEN Append(summary, Row(s, "SKIPPED"))
         ELSE summary

(***************************************************************************)
(* Test.summarizeStepAfterStopRunning                                      *)
(***************************************************************************)
RECURSIVE doWhileRowsInclusive(_, _, _, _)
\* (mutation: the loop runs while iteration <= count)
doWhileRowsInclusive(summary, s, it, count) ==
    LET pushed == Append(summary, Row(s, "UNEXECUTED"))
    IN  IF it + 1 <= count THEN doWhileRowsInclusive(pushed, s, it + 1, count)
        ELSE pushed

RECURSIVE doWhileRows(_, _, _, _)
\* do { iteration += 1; push } while (iteration < count)
doWhileRows(summary, s, it, count) ==
    LET pushed == Append(summary, Row(s, "UNEXECUTED"))
    IN  IF it + 1 < count THEN doWhileRows(pushed, s, it + 1, count) ELSE pushed

\* countRepeatStep: the rows it pushes for a step with a repeat descriptor
countRepeatStep(summary, s, it) ==
    IF it > 0 THEN doWhileRows(summary, s, it, steps[s].repeat) ELSE summary

summarizedUnexecutedStep(summary, s, it) ==
    IF steps[s].repeat > 0
    THEN countRepeatStep(summary, s, it)
    ELSE Append(summary, Row(s, "UNEXECUTED"))

RECURSIVE loopUnexecutedSteps(_, _)
\* StepIterator.loopUnexecutedSteps: visits, in declaration order, the steps
\* the traversal has not handed out (or has to hand out again: a repeat step
\* with repetitions left).
loopUnexecutedSteps(summary, from) ==
    IF from > Len(steps) THEN summary
    ELSE loopUnexecutedSteps(
             summarizedUnexecutedStep(summary, from, repeatIter[from]), from + 1)

summarizeStepAfterStopRunning(summary) == loopUnexecutedSteps(summary, cursor)

\* repeat.iteration of every visited step with a repeat descriptor is reset
resetRepeat ==
    [s \in DOMAIN repeatIter |->
        IF s >= cursor /\ steps[s].repeat > 0 THEN 0 ELSE repeatIter[s]]

(***************************************************************************)
(* Test.getStepSubtitle                                                    *)
(***************************************************************************)
getStepSubtitle(s) ==
    [recovery |-> prop[s].recoveryTries,
     loop |-> IF steps[s].repeat = 0 THEN 0
              ELSE IF repeatIter[s] >= steps[s].repeat \/ repeatIter[s] = 0
                   THEN steps[s].repeat
                   ELSE repeatIter[s]]

(***************************************************************************)
(* runStep: the settings of the execution target around the body           *)
(***************************************************************************)
\* browser.settings = { ...this.settings, ...step.options }
stepSettings(s) ==
    [waitTimeout |-> IF steps[s].waitTimeout > 0 THEN steps[s].waitTimeout
                     ELSE settings.waitTimeout,
     tries |-> settings.tries,
     options |-> s]

\* (mutation: the finally block does not restore the settings)
settingsNotRestored(original, current) == current

\* finally { browser.settings = originalBrowserSettings }
restoredSettings(original, current) == original

\* step.prop after the body: { executed: repeat?.iteration === 0 }
propAfterBody(s) ==
    [executed |-> steps[s].repeat > 0 /\ repeatIter[s] = 0, recoveryTries |-> 0]

\* runHookFn: browser.settings = { ...this.settings }; waitTimeout = hook's
hookSettings(i) ==
    [waitTimeout |-> HookWaitTimeout(i), tries |-> settings.tries, options |-> 0]

\* the row runStep pushes once the body has settled
stepOutcomeRow(s, error) == Row(s, IF error THEN "FAILED" ELSE "PASSED")

(***************************************************************************)
(* StepIterator.callCondition and callRecovery                             *)
(***************************************************************************)
callCondition(s, it) ==
    ~(steps[s].pending \/ (steps[s].once /\ it > 1) \/ steps[s].skip)

\* the bound on the tries of a recovery sequence: the override when one is
\* given, the tries configured for the recovery otherwise
recoveryTriesLimit(triesOverride) ==
    IF triesOverride > 0 THEN triesOverride ELSE MaxTries

(***************************************************************************)
(* Initial state: a Test has been constructed from a script.               *)
(***************************************************************************)
CanRun(o) == ~o.skip /\ ~o.pending

InitLooperIdle ==
    /\ loopCount = 0 /\ duration = 0 /\ iterations = 0 /\ cancelled = FALSE
    /\ timerArmed = FALSE /\ lpc = "idle" /\ calls = <<>> /\ returned = -1
    /\ running = TRUE /\ stopCalled = FALSE /\ timerFired = FALSE
    /\ stopCalls = 0 /\ inProgress = 0

InitTest ==
    /\ \E n \in 1..MaxSteps : steps \in [1..n -> StepOptions]
    /\ recoverySteps \in SUBSET {s \in DOMAIN steps : CanRun(steps[s])}
    \* the iteration number is read only for a step marked once
    /\ iteration \in IF \E s \in DOMAIN steps : steps[s].once
                     THEN {1, MaxIteration} ELSE {1}
    /\ settings \in [waitTimeout : {MaxHooks + 1}, tries : {MaxTries},
                     options : {0}]
    /\ browserSettings = settings
    /\ failed = FALSE
    /\ subTitle = EmptySubTitle
    /\ summaryStep = <<>>
    /\ attached = FALSE
    /\ customContext = 0
    /\ cursor = 1
    /\ cur = 0
    /\ repeatIter = [s \in DOMAIN steps |-> 0]
    /\ prop = [s \in DOMAIN steps |-> NoProp]
    /\ pc = "setup"
    /\ hookIdx = 0
    /\ hookRunning = FALSE
    /\ hookCommands = 0
    /\ hookInCommand = FALSE
    /\ hooksAbandoned = 0
    /\ hookBefore = settings
    /\ notifications = <<>>
    /\ frames = <<>>
    /\ cancelRequested = FALSE
    /\ thrown = FALSE
    /\ cause = "none"
    /\ outcome = "pending"
    /\ cleanup = <<>>

InitRunnerIdle == rpc = "idle" /\ runnerRunning = TRUE /\ cancelCalls = 0

\* no PersistentRunner
InitPersistentIdle ==
    /\ prc = "idle" /\ testScriptFactory = FALSE /\ clientPromise = FALSE
    /\ stopped = FALSE /\ immediates = 0 /\ reruns = 0 /\ runs = <<>>

Init == InitTest /\ InitLooperIdle /\ InitRunnerIdle /\ InitPersistentIdle

(***************************************************************************)
(* Test.runWithCancellation                                                *)
(***************************************************************************)
scriptVars == <<steps, iteration, recoverySteps>>

\* (mutation: the cleanup is not in a finally block and a throw skips it)
ThrowSkipsCleanup(what) ==
    /\ failed' = TRUE
    /\ thrown' = TRUE
    /\ cause' = what
    /\ pc' = "done"

\* catch (err) { this.failed = true; throw err }: control enters finally
Throw(what) ==
    /\ failed' = TRUE
    /\ thrown' = TRUE
    /\ cause' = what
    /\ pc' = "finally"

\* lines 301-310: reopen the page, attach the interceptor, reset the flags
Setup ==
    /\ pc = "setup"
    /\ attached' = TRUE
    /\ failed' = FALSE
    /\ subTitle' = EmptySubTitle
    /\ pc' = "directives"
    /\ UNCHANGED <<scriptVars, notifications, hookBefore,
                   settings, summaryStep, browserSettings,
                   customContext, cursor, cur, repeatIter, prop, hookIdx,
                   hookRunning, hookCommands, hookInCommand, hooksAbandoned,
                   frames, cancelRequested,
                   thrown, cause, outcome, cleanup, looperVars,
                   runnerVars,
                   persistentVars>>

\* lines 327-338: the one-shot directives and testObserver.before; a
\* directive of the execution target may throw
Directives ==
    /\ pc = "directives"
    /\ \E ok \in BOOLEAN :
         IF ok THEN pc' = "feed" /\ UNCHANGED <<failed, thrown, cause>>
         ELSE Throw("directive")
    /\ UNCHANGED <<scriptVars, notifications, hookBefore,
                   settings, subTitle, summaryStep, attached,
                   browserSettings, customContext, cursor, cur, repeatIter,
                   prop, hookIdx, hookRunning, hookCommands, hookInCommand,
                   hooksAbandoned, frames,
                   cancelRequested, outcome, cleanup, looperVars,
                   runnerVars,
                   persistentVars>>

\* lines 341-349: testData.feed(); null is fatal
Feed ==
    /\ pc = "feed"
    /\ \E testDataRecord \in {"null", "record"} :
         IF testDataRecord = "null"
         THEN Throw("data") /\ UNCHANGED hookIdx
         ELSE /\ pc' = "beforeAll"
              /\ hookIdx' = 1
              /\ UNCHANGED <<failed, thrown, cause>>
    /\ UNCHANGED <<scriptVars, notifications, hookBefore,
                   settings, subTitle, summaryStep, attached,
                   browserSettings, customContext, cursor, cur, repeatIter,
                   prop, hookRunning, hookCommands, hookInCommand,
                   hooksAbandoned, frames,
                   cancelRequested, outcome, cleanup, looperVars,
                   runnerVars,
                   persistentVars>>

(***************************************************************************)
(* Test.runHookFn and doHookFnWithTimeout, for the lifecycle point pc      *)
(***************************************************************************)
\* lines 614-617: override the target's settings and start the hook
HookStart ==
    /\ pc \in HookPhases
    /\ ~hookRunning
    /\ hookIdx <= MaxHooks
    /\ hookBefore' = IF hookIdx = 1 THEN browserSettings ELSE hookBefore
    /\ browserSettings' = hookSettings(hookIdx)
    /\ hookRunning' = TRUE
    /\ hookCommands' = 0
    /\ hookInCommand' = FALSE
    /\ cleanup' = IF pc = "afterAll" THEN Append(cleanup, "afterAll")
                  ELSE cleanup
    /\ UNCHANGED <<scriptVars, notifications,
                   settings, failed, subTitle, summaryStep,
                   attached, customContext, cursor, cur, repeatIter, prop,
                   pc, hookIdx, hooksAbandoned, frames, cancelRequested,
                   thrown, cause, outcome, looperVars, runnerVars,
                   persistentVars>>

\* the hook sequence failed: runHookFn throws new Error(error).  In the
\* finally block (afterAll) the error replaces the iteration's result.
HookFail ==
    IF pc = "afterAll"
    THEN /\ pc' = "done"
         /\ outcome' = "rejected"
         /\ UNCHANGED <<failed, thrown, cause>>
    ELSE Throw(pc) /\ UNCHANGED outcome

\* the hook function settles before the timer: it returns or throws
HookSettle ==
    /\ pc \in HookPhases
    /\ hookRunning
    /\ ~hookInCommand
    /\ hookRunning' = FALSE
    /\ hookCommands' = 0
    /\ UNCHANGED hookInCommand
    /\ \E ok \in BOOLEAN :
         IF ok
         THEN /\ hookIdx' = hookIdx + 1
              /\ UNCHANGED <<pc, failed, thrown, cause, outcome>>
         ELSE HookFail /\ hookIdx' = 0
    /\ UNCHANGED <<scriptVars, notifications, hookBefore,
                   settings, subTitle, summaryStep, attached,
                   browserSettings, customContext, cursor, cur, repeatIter,
                   prop, hooksAbandoned, frames, cancelRequested, cleanup,
                   looperVars, runnerVars,
                   persistentVars>>

\* the timer wins the race: the hook function is left running
HookTimeout ==
    /\ pc \in HookPhases
    /\ hookRunning
    /\ hookRunning' = FALSE
    /\ hookCommands' = 0
    /\ hookInCommand' = FALSE
    /\ hooksAbandoned' = hooksAbandoned + 1
    /\ HookFail
    /\ hookIdx' = 0
    /\ UNCHANGED <<scriptVars, notifications, hookBefore,
                   settings, subTitle, summaryStep, attached,
                   browserSettings, customContext, cursor, cur, repeatIter,
                   prop, frames, cancelRequested, cleanup, looperVars,
                   runnerVars,
                   persistentVars>>

\* lines 579-584, called by the execution target before it runs a command
\* of the awaited hook function, which was given the same browser (616):
\* beforeStepAction is notified for the current step of the target, if set
HookWillRunCommand ==
    /\ pc \in HookPhases
    /\ hookRunning
    /\ ~hookInCommand
    /\ hookCommands < MaxCommands
    /\ hookInCommand' = TRUE
    /\ hookCommands' = hookCommands + 1
    /\ notifications' =
           IF customContext # 0
           THEN Append(notifications,
                       Notification("beforeStepAction", customContext))
           ELSE notifications
    /\ UNCHANGED <<scriptVars, hookBefore, settings, failed, subTitle,
                   summaryStep, attached, browserSettings, customContext,
                   cursor, cur, repeatIter, prop, pc, hookIdx, hookRunning,
                   hooksAbandoned, frames, cancelRequested, thrown, cause,
                   outcome, cleanup, looperVars, runnerVars,
                   persistentVars>>

\* lines 586-590, called by the execution target after the hook's command
HookDidRunCommand ==
    /\ pc \in HookPhases
    /\ hookRunning
    /\ hookInCommand
    /\ hookInCommand' = FALSE
    /\ notifications' =
           IF customContext # 0
           THEN Append(notifications,
                       Notification("afterStepAction", customContext))
           ELSE notifications
    /\ UNCHANGED <<scriptVars, hookBefore, settings, failed, subTitle,
                   summaryStep, attached, browserSettings, customContext,
                   cursor, cur, repeatIter, prop, pc, hookIdx, hookRunning,
                   hookCommands, hooksAbandoned, frames, cancelRequested,
                   thrown, cause, outcome, cleanup, looperVars, runnerVars,
                   persistentVars>>

\* every hook of the lifecycle point has run: runHookFn returns
HooksDone ==
    /\ pc \in HookPhases
    /\ ~hookRunning
    /\ hookIdx > MaxHooks
    /\ hookIdx' = 0
    /\ pc' = CASE pc = "beforeAll" -> "next"
               [] pc = "beforeEach" -> "callCondition"
               [] pc = "afterEach" -> "next"
               [] pc = "afterAll" -> "done"
    /\ outcome' = IF pc = "afterAll"
                  THEN (IF thrown THEN "rejected" ELSE "resolved")
                  ELSE outcome
    /\ UNCHANGED <<scriptVars, notifications, hookBefore,
                   settings, failed, subTitle, summaryStep,
                   attached, browserSettings, customContext, cursor, cur,
                   repeatIter, prop, hookRunning, hookCommands, hookInCommand,
                   hooksAbandoned, frames,
                   cancelRequested, thrown, cause, cleanup, looperVars,
                   runnerVars,
                   persistentVars>>

(***************************************************************************)
(* The step loop: StepIterator.run and the executor callback (352-395)     *)
(***************************************************************************)
\* StepIterator.run hands out the next step, or returns
NextStep ==
    /\ pc = "next"
    /\ IF cursor <= Len(steps)
       THEN /\ cur' = cursor
            /\ cursor' = cursor + 1
            /\ pc' = "beforeEach"
            /\ hookIdx' = 1
       ELSE /\ cur' = 0
            /\ pc' = "finally"
            /\ UNCHANGED <<cursor, hookIdx>>
    /\ UNCHANGED <<scriptVars, notifications, hookBefore,
                   settings, failed, subTitle, summaryStep,
                   attached, browserSettings, customContext, repeatIter,
                   prop, hookRunning, hookCommands, hookInCommand,
                   hooksAbandoned, frames,
                   cancelRequested, thrown, cause, outcome, cleanup,
                   looperVars,
                   runnerVars,
                   persistentVars>>

\* lines 355-359: the gate; a step that runs and carries a repeat
\* descriptor is counted, and handed out again while repetitions are left.
\* The conditional predicate of a step that has one holds or does not.
CallCondition ==
    /\ pc = "callCondition"
    /\ \E holds \in (IF steps[cur].condition THEN BOOLEAN ELSE {TRUE}) :
       IF callCondition(cur, iteration) /\ holds
       THEN /\ IF steps[cur].repeat > 0
               THEN IF repeatIter[cur] >= steps[cur].repeat - 1
                    THEN /\ repeatIter' = [repeatIter EXCEPT ![cur] = 0]
                         /\ UNCHANGED cursor
                    ELSE /\ repeatIter' = [repeatIter EXCEPT ![cur] = @ + 1]
                         /\ cursor' = cursor - 1
               ELSE UNCHANGED <<repeatIter, cursor>>
            /\ pc' = IF steps[cur].predicate THEN "callPredicate" ELSE "race"
            /\ UNCHANGED summaryStep
       ELSE /\ summaryStep' = summarizeStepBeforeRun(summaryStep, cur, iteration)
            /\ pc' = "next"
            /\ UNCHANGED <<repeatIter, cursor>>
    /\ UNCHANGED <<scriptVars, notifications, hookBefore,
                   settings, failed, subTitle, attached,
                   browserSettings, customContext, cur, prop, hookIdx,
                   hookRunning, hookCommands, hookInCommand, hooksAbandoned,
                   frames, cancelRequested,
                   thrown, cause, outcome, cleanup, looperVars,
                   runnerVars,
                   persistentVars>>

\* lines 361-368: the runtime predicate; false bypasses the body silently
CallPredicate ==
    /\ pc = "callPredicate"
    /\ \E condition \in BOOLEAN :
         pc' = IF condition THEN "race" ELSE "next"
    /\ UNCHANGED <<scriptVars, notifications, hookBefore,
                   settings, failed, subTitle, summaryStep,
                   attached, browserSettings, customContext, cursor, cur,
                   repeatIter, prop, hookIdx, hookRunning, hookCommands,
                   hookInCommand, hooksAbandoned,
                   frames, cancelRequested, thrown, cause, outcome, cleanup,
                   looperVars, runnerVars,
                   persistentVars>>

\* lines 370-374: set the current step, call runStep (which notifies
\* beforeStep and suspends) and race it against the cancellation token
RaceStart ==
    /\ pc = "race"
    /\ customContext' = cur
    /\ notifications' = Append(notifications, Notification("beforeStep", cur))
    /\ frames' = Append(frames, [step |-> cur, stage |-> "beforeStep",
                                 error |-> FALSE, commands |-> 0,
                                 inCommand |-> FALSE,
                                 originalBrowserSettings |-> browserSettings,
                                 before |-> browserSettings,
                                 abandoned |-> "no"])
    /\ pc' = "racing"
    /\ UNCHANGED <<scriptVars, hookBefore,
                   settings, failed, subTitle, summaryStep,
                   attached, browserSettings, cursor, cur, repeatIter, prop,
                   hookIdx, hookRunning, hookCommands, hookInCommand,
                   hooksAbandoned, cancelRequested,
                   thrown, cause, outcome, cleanup, looperVars,
                   runnerVars,
                   persistentVars>>

\* cancelToken.promise settles first: the executor stops waiting for runStep
CancelWins ==
    /\ pc = "racing"
    /\ cancelRequested
    /\ frames' = [frames EXCEPT ![Len(frames)].abandoned = frames[Len(frames)].stage]
    /\ pc' = "afterRace"
    /\ UNCHANGED <<scriptVars, notifications, hookBefore,
                   settings, failed, subTitle, summaryStep,
                   attached, browserSettings, customContext, cursor, cur,
                   repeatIter, prop, hookIdx, hookRunning, hookCommands,
                   hookInCommand, hooksAbandoned,
                   cancelRequested, thrown, cause, outcome, cleanup,
                   looperVars,
                   runnerVars,
                   persistentVars>>

\* lines 376-385: after the race
AfterRace ==
    /\ pc = "afterRace"
    /\ IF cancelRequested
       THEN pc' = "next" /\ UNCHANGED <<settings, hookIdx>>
       ELSE IF failed
            THEN /\ settings' = [settings EXCEPT !.tries = 0]
                 /\ pc' = "callRecovery"
                 /\ UNCHANGED hookIdx
            ELSE /\ pc' = "afterEach"
                 /\ hookIdx' = 1
                 /\ UNCHANGED settings
    /\ UNCHANGED <<scriptVars, notifications, hookBefore,
                   failed, subTitle, summaryStep, attached,
                   browserSettings, customContext, cursor, cur, repeatIter,
                   prop, hookRunning, hookCommands, hookInCommand,
                   hooksAbandoned, frames,
                   cancelRequested, thrown, cause, outcome, cleanup,
                   looperVars,
                   runnerVars,
                   persistentVars>>

\* (mutation: a successful recovery does not clear the failed flag)
afterRecoveryKeepsFailed(result) ==
    IF result
    THEN /\ failed' = failed
         /\ pc' = "afterEach"
         /\ hookIdx' = 1
         /\ UNCHANGED <<thrown, cause>>
    ELSE Throw("recovery") /\ UNCHANGED hookIdx

\* what the executor does with the result of callRecovery (387-394)
afterRecovery(result) ==
    IF result
    THEN /\ failed' = FALSE
         /\ pc' = "afterEach"
         /\ hookIdx' = 1
         /\ UNCHANGED <<thrown, cause>>
    ELSE Throw("recovery") /\ UNCHANGED hookIdx

\* StepIterator.callRecovery with the tries passed at line 384, and the
\* executor's reaction to its result
CallRecovery ==
    /\ pc = "callRecovery"
    /\ IF cur \notin recoverySteps
       THEN afterRecovery(FALSE) /\ UNCHANGED prop
       ELSE \E n \in 1..recoveryTriesLimit(settings.tries), result \in BOOLEAN :
              /\ ~result => n = recoveryTriesLimit(settings.tries)
              /\ prop' = [prop EXCEPT ![cur].recoveryTries = n]
              /\ afterRecovery(result)
    /\ UNCHANGED <<scriptVars, notifications, hookBefore,
                   settings, subTitle, summaryStep, attached,
                   browserSettings, customContext, cursor, cur, repeatIter,
                   hookRunning, hookCommands, hookInCommand, hooksAbandoned,
                   frames, cancelRequested,
                   outcome, cleanup, looperVars,
                   runnerVars,
                   persistentVars>>

(***************************************************************************)
(* Test.runStep: one activation per frame                                  *)
(***************************************************************************)
\* the executor is waiting for frame f and the token has not been requested,
\* or the executor has stopped waiting for it
FrameRuns(f) ==
    \/ frames[f].abandoned # "no"
    \/ f = Len(frames) /\ pc = "racing" /\ ~cancelRequested

\* lines 493-500: sub-title, settings override, the body is called
RunStepBody(f) ==
    /\ frames[f].stage = "beforeStep"
    /\ FrameRuns(f)
    /\ subTitle' = getStepSubtitle(frames[f].step)
    /\ browserSettings' = stepSettings(frames[f].step)
    /\ frames' = [frames EXCEPT ![f].stage = "body",
                                ![f].originalBrowserSettings = browserSettings,
                                ![f].before = browserSettings]
    /\ UNCHANGED <<scriptVars, notifications, hookBefore,
                   settings, failed, summaryStep, attached,
                   customContext, cursor, cur, repeatIter, prop, pc, hookIdx,
                   hookRunning, hookCommands, hookInCommand, hooksAbandoned,
                   cancelRequested, thrown, cause,
                   outcome, cleanup, looperVars,
                   runnerVars,
                   persistentVars>>

\* line 579-584, called by the execution target before it runs a command of
\* the body: beforeStepAction is notified for the current step of the target
WillRunCommand(f) ==
    /\ frames[f].stage = "body"
    /\ ~frames[f].inCommand
    /\ frames[f].commands < MaxCommands
    /\ FrameRuns(f)
    /\ frames' = [frames EXCEPT ![f].inCommand = TRUE, ![f].commands = @ + 1]
    /\ notifications' =
           IF customContext # 0
           THEN Append(notifications,
                       Notification("beforeStepAction", customContext))
           ELSE notifications
    /\ UNCHANGED <<scriptVars, hookBefore, settings, failed, subTitle,
                   summaryStep, attached, browserSettings, customContext,
                   cursor, cur, repeatIter, prop, pc, hookIdx, hookRunning,
                   hookCommands, hookInCommand,
                   hooksAbandoned, cancelRequested, thrown, cause, outcome,
                   cleanup, looperVars,
                   runnerVars,
                   persistentVars>>

\* lines 586-590, called by the execution target after the command
DidRunCommand(f) ==
    /\ frames[f].stage = "body"
    /\ frames[f].inCommand
    /\ FrameRuns(f)
    /\ frames' = [frames EXCEPT ![f].inCommand = FALSE]
    /\ notifications' =
           IF customContext # 0
           THEN Append(notifications,
                       Notification("afterStepAction", customContext))
           ELSE notifications
    /\ UNCHANGED <<scriptVars, hookBefore, settings, failed, subTitle,
                   summaryStep, attached, browserSettings, customContext,
                   cursor, cur, repeatIter, prop, pc, hookIdx, hookRunning,
                   hookCommands, hookInCommand,
                   hooksAbandoned, cancelRequested, thrown, cause, outcome,
                   cleanup, looperVars,
                   runnerVars,
                   persistentVars>>

\* lines 501-535: the body settles; finally restores the settings and sets
\* step.prop; onStepError or onStepPassed is notified, the summary row is
\* pushed and afterStep is notified
BodySettles(f) ==
    /\ frames[f].stage = "body"
    /\ ~frames[f].inCommand
    /\ FrameRuns(f)
    /\ \E error \in BOOLEAN :
         /\ frames' = [frames EXCEPT ![f].stage = "afterStep", ![f].error = error]
         /\ failed' = IF error THEN TRUE ELSE failed
         /\ summaryStep' = Append(summaryStep,
                                  stepOutcomeRow(frames[f].step, error))
         /\ notifications' = notifications \o
                <<Notification(IF error THEN "onStepError" ELSE "onStepPassed",
                               frames[f].step),
                  Notification("afterStep", frames[f].step)>>
    /\ browserSettings' =
           restoredSettings(frames[f].originalBrowserSettings, browserSettings)
    /\ prop' = [prop EXCEPT ![frames[f].step] = propAfterBody(frames[f].step)]
    /\ UNCHANGED <<scriptVars, hookBefore,
                   settings, subTitle, attached, customContext,
                   cursor, cur, repeatIter, pc, hookIdx, hookRunning,
                   hookCommands, hookInCommand,
                   hooksAbandoned, cancelRequested, thrown, cause, outcome,
                   cleanup,
                   looperVars, runnerVars,
                   persistentVars>>

\* lines 537-544: the step delay, then runStep returns and the executor
\* resumes.  (The return of an activation the executor no longer waits for
\* has no effect.)
RunStepReturns(f) ==
    /\ frames[f].stage = "afterStep"
    /\ f = Len(frames) /\ pc = "racing" /\ ~cancelRequested
    /\ frames' = [frames EXCEPT ![f].stage = "done"]
    /\ pc' = "afterRace"
    /\ UNCHANGED <<scriptVars, notifications, hookBefore,
                   settings, failed, subTitle, summaryStep,
                   attached, browserSettings, customContext, cursor, cur,
                   repeatIter, prop, hookIdx, hookRunning, hookCommands,
                   hookInCommand, hooksAbandoned,
                   cancelRequested, thrown, cause, outcome, cleanup,
                   looperVars,
                   runnerVars,
                   persistentVars>>

(***************************************************************************)
(* finally (399-405): afterRunSteps, testObserver.after, the afterAll hooks*)
(***************************************************************************)
\* line 409: await requestInterceptor.detach
Detach ==
    /\ pc = "finally"
    /\ attached' = FALSE
    /\ cleanup' = Append(cleanup, "detach")
    /\ pc' = "afterRunSteps"
    /\ UNCHANGED <<scriptVars, notifications, hookBefore,
                   settings, failed, subTitle, summaryStep,
                   browserSettings, customContext, cursor, cur, repeatIter,
                   prop, hookIdx, hookRunning, hookCommands, hookInCommand,
                   hooksAbandoned, frames,
                   cancelRequested, thrown, cause, outcome,
                   looperVars, runnerVars,
                   persistentVars>>

\* lines 410-411: clear the sub-title, summarize the unexecuted steps
AfterRunSteps ==
    /\ pc = "afterRunSteps"
    /\ subTitle' = EmptySubTitle
    /\ summaryStep' = summarizeStepAfterStopRunning(summaryStep)
    /\ repeatIter' = resetRepeat
    /\ cleanup' = cleanup \o <<"subTitle", "summarize">>
    /\ pc' = "observerAfter"
    /\ UNCHANGED <<scriptVars, notifications, hookBefore,
                   settings, failed, attached, browserSettings,
                   customContext, cursor, cur, prop, hookIdx, hookRunning,
                   hookCommands, hookInCommand,
                   hooksAbandoned, frames, cancelRequested, thrown, cause,
                   outcome,
                   looperVars, runnerVars,
                   persistentVars>>

\* line 402: await testObserver.after(this); then the afterAll hooks
ObserverAfter ==
    /\ pc = "observerAfter"
    /\ cleanup' = Append(cleanup, "after")
    /\ pc' = "afterAll"
    /\ hookIdx' = 1
    /\ UNCHANGED <<scriptVars, notifications, hookBefore,
                   settings, failed, subTitle, summaryStep,
                   attached, browserSettings, customContext, cursor, cur,
                   repeatIter, prop, hookRunning, hookCommands, hookInCommand,
                   hooksAbandoned, frames,
                   cancelRequested, thrown, cause, outcome,
                   looperVars, runnerVars,
                   persistentVars>>

\* The holder of the cancellation token requests cancellation.  The token
\* is read only by the race and by the check that follows it (370-376), so
\* a request made earlier in the iteration acts as one made when the race
\* starts.
Cancel ==
    /\ ~cancelRequested
    /\ pc \in {"racing", "afterRace"}
    /\ cancelRequested' = TRUE
    /\ UNCHANGED <<scriptVars, notifications, hookBefore,
                   settings, failed, subTitle, summaryStep,
                   attached, browserSettings, customContext, cursor, cur,
                   repeatIter, prop, pc, hookIdx, hookRunning, hookCommands,
                   hookInCommand,
                   hooksAbandoned, frames, thrown, cause, outcome, cleanup,
                   looperVars, runnerVars,
                   persistentVars>>

(***************************************************************************)
(* Looper (Runner.ts 26-65)                                                *)
(***************************************************************************)
\* (mutation: one loop too many, iterations <= loopCount)
continueLoopOffByOne ==
    ~cancelled /\ (iterations <= loopCount \/ loopCount <= 0)

\* (mutation: a loop count of 0 is not unbounded)
continueLoopZeroIsBounded ==
    ~cancelled /\ (iterations < loopCount \/ loopCount < 0)

\* get continueLoop
continueLoop ==
    LET hasInfiniteLoops == loopCount <= 0
        hasLoopsLeft == iterations < loopCount
    IN  ~cancelled /\ (hasLoopsLeft \/ hasInfiniteLoops)

\* (mutation: the timer callback does not set the cancelled flag)
TimerFiresKeepsLooping ==
    /\ timerArmed
    /\ timerArmed' = FALSE
    /\ timerFired' = TRUE
    /\ UNCHANGED <<loopCount, duration, iterations, cancelled, lpc, calls,
                   returned, running, stopCalled, stopCalls, inProgress,
                   testVars, runnerVars,
                   persistentVars>>

\* the timer callback armed by the constructor: this.cancelled = true
TimerFires ==
    /\ timerArmed
    /\ cancelled' = TRUE
    /\ timerArmed' = FALSE
    /\ timerFired' = TRUE
    /\ UNCHANGED <<loopCount, duration, iterations, lpc, calls, returned,
                   running, stopCalled, stopCalls, inProgress,
                   testVars, runnerVars,
                   persistentVars>>

\* (mutation: stop() toggles the cancelled flag)
LooperStopToggles ==
    /\ lpc \in {"constructed", "check", "iterating"}
    /\ stopCalls < MaxStops
    /\ cancelled' = ~cancelled
    /\ stopCalled' = TRUE
    /\ stopCalls' = stopCalls + 1
    /\ UNCHANGED <<loopCount, duration, iterations, timerArmed, lpc, calls,
                   returned, running, timerFired, inProgress,
                   testVars, runnerVars,
                   persistentVars>>

\* stop()
LooperStop ==
    /\ lpc \in {"constructed", "check", "iterating"}
    /\ stopCalls < MaxStops
    /\ cancelled' = TRUE
    /\ stopCalled' = TRUE
    /\ stopCalls' = stopCalls + 1
    /\ UNCHANGED <<loopCount, duration, iterations, timerArmed, lpc, calls,
                   returned, running, timerFired, inProgress,
                   testVars, runnerVars,
                   persistentVars>>

\* run(iterator) is called
LooperRun ==
    /\ lpc = "constructed"
    /\ lpc' = "check"
    /\ UNCHANGED <<loopCount, duration, iterations, cancelled, timerArmed,
                   calls, returned, running, stopCalled, timerFired,
                   stopCalls, inProgress, testVars, runnerVars,
                   persistentVars>>

\* (mutation: the iterator is called without await)
LooperIterateNoAwait ==
    /\ lpc = "check"
    /\ continueLoop
    /\ iterations < MaxIterations
    /\ iterations' = iterations + 1
    /\ calls' = Append(calls, iterations + 1)
    /\ inProgress' = inProgress + 1
    /\ lpc' = "check"
    /\ UNCHANGED <<loopCount, duration, cancelled, timerArmed, returned,
                   running, stopCalled, timerFired, stopCalls,
                   testVars, runnerVars,
                   persistentVars>>

\* while (this.continueLoop) await iterator(++this.iterations)
LooperIterate ==
    /\ lpc = "check"
    /\ continueLoop
    /\ iterations < MaxIterations
    /\ iterations' = iterations + 1
    /\ calls' = Append(calls, iterations + 1)
    /\ inProgress' = inProgress + 1
    /\ lpc' = "iterating"
    /\ UNCHANGED <<loopCount, duration, cancelled, timerArmed, returned,
                   running, stopCalled, timerFired, stopCalls,
                   testVars, runnerVars,
                   persistentVars>>

\* the iterator's promise settles; a rejection leaves run through the await
IteratorSettles ==
    /\ lpc = "iterating"
    /\ inProgress' = inProgress - 1
    /\ \E ok \in BOOLEAN : lpc' = IF ok THEN "check" ELSE "rejected"
    /\ UNCHANGED <<loopCount, duration, iterations, cancelled, timerArmed,
                   calls, returned, running, stopCalled, timerFired,
                   stopCalls, testVars, runnerVars,
                   persistentVars>>

\* the loop is left: finish() clears the timer, run returns this.iterations
LooperReturns ==
    /\ lpc = "check"
    /\ ~continueLoop
    /\ timerArmed' = FALSE
    /\ returned' = iterations
    /\ lpc' = "returned"
    /\ UNCHANGED <<loopCount, duration, iterations, cancelled, calls, running,
                   stopCalled, timerFired, stopCalls, inProgress,
                   testVars, runnerVars,
                   persistentVars>>

(***************************************************************************)
(* Runner.runTestScript and Runner.stop (Runner.ts 106-111, 141-206).  The *)
(* iterator given to the Looper awaits test.run(iteration) and rethrows    *)
(* its error (173-189), so it rejects exactly when the iteration does.     *)
(***************************************************************************)
\* line 145: if (!this.running) return; else the client is awaited (148)
RunTestScript ==
    /\ rpc = "start"
    /\ rpc' = IF runnerRunning THEN "client" ELSE "settled"
    /\ UNCHANGED <<runnerRunning, cancelCalls, testVars, looperVars,
                   persistentVars>>

\* lines 148-169: new Test, enqueueScript and beforeRun; either may throw
\* into the catch block
RunnerBeforeRun ==
    /\ rpc = "client"
    /\ \E ok \in BOOLEAN : rpc' = IF ok THEN "looper" ELSE "catch"
    /\ UNCHANGED <<runnerRunning, cancelCalls, testVars, looperVars,
                   persistentVars>>

\* (mutation: the Looper is constructed without the running argument)
RunnerNewLooperIgnoresRunning ==
    /\ rpc = "looper"
    /\ rpc' = "looping"
    /\ running' = TRUE
    /\ cancelled' = FALSE
    /\ timerArmed' = (duration > 0)
    /\ lpc' = "check"
    /\ UNCHANGED <<loopCount, duration, iterations, calls, returned,
                   stopCalled, timerFired, stopCalls, inProgress,
                   runnerRunning, cancelCalls, testVars,
                   persistentVars>>

\* lines 172-173: this.looper = new Looper(settings, this.running), and
\* looper.run is called
RunnerNewLooper ==
    /\ rpc = "looper"
    /\ rpc' = "looping"
    /\ running' = runnerRunning
    /\ cancelled' = ~runnerRunning
    /\ timerArmed' = (duration > 0)
    /\ lpc' = "check"
    /\ UNCHANGED <<loopCount, duration, iterations, calls, returned,
                   stopCalled, timerFired, stopCalls, inProgress,
                   runnerRunning, cancelCalls, testVars,
                   persistentVars>>

\* lines 191-192: looper.run returned
RunnerCompleted ==
    /\ rpc = "looping"
    /\ lpc = "returned"
    /\ rpc' = "settled"
    /\ UNCHANGED <<runnerRunning, cancelCalls, testVars, looperVars,
                   persistentVars>>

\* (mutation: the catch block starts the loop again instead of giving up)
RunnerCatchRetries ==
    /\ rpc = "looping"
    /\ lpc = "rejected"
    /\ lpc' = "check"
    /\ UNCHANGED <<loopCount, duration, iterations, cancelled, timerArmed,
                   calls, returned, running, stopCalled, timerFired,
                   stopCalls, inProgress, runnerVars, testVars,
                   persistentVars>>

\* lines 193-202: looper.run rejected; the error is logged
RunnerCatch ==
    /\ rpc = "looping"
    /\ lpc = "rejected"
    /\ rpc' = "catch"
    /\ UNCHANGED <<runnerRunning, cancelCalls, testVars, looperVars,
                   persistentVars>>

\* line 204 and Test.cancel (252-255): failed = true, then testCancel, which
\* notifies after(test) once an iteration has installed it (304-306)
RunnerTestCancel ==
    /\ rpc = "catch"
    /\ rpc' = "settled"
    /\ failed' = TRUE
    /\ cancelCalls' = cancelCalls + 1
    /\ cleanup' = IF calls # <<>> THEN Append(cleanup, "after") ELSE cleanup
    /\ UNCHANGED <<scriptVars, notifications, hookBefore, settings, subTitle,
                   summaryStep, attached, browserSettings, customContext,
                   cursor, cur, repeatIter, prop, pc, hookIdx, hookRunning,
                   hookCommands, hookInCommand,
                   hooksAbandoned, frames, cancelRequested, thrown, cause,
                   outcome, runnerRunning, looperVars,
                   persistentVars>>

\* Runner.stop (106-111): running = false, and the Looper, if there is one,
\* is stopped
RunnerStop ==
    /\ runnerRunning
    /\ rpc # "settled"
    /\ runnerRunning' = FALSE
    /\ IF lpc = "idle"
       THEN UNCHANGED <<cancelled, stopCalled, stopCalls>>
       ELSE /\ cancelled' = TRUE
            /\ stopCalled' = TRUE
            /\ stopCalls' = stopCalls + 1
    /\ UNCHANGED <<loopCount, duration, iterations, timerArmed, lpc, calls,
                   returned, running, timerFired, inProgress, rpc,
                   cancelCalls, testVars,
                   persistentVars>>

(***************************************************************************)
(* Specifications                                                          *)
(***************************************************************************)
Engine ==
    \/ Setup
    \/ Directives
    \/ Feed
    \/ HookStart
    \/ HookSettle
    \/ HookTimeout
    \/ HooksDone
    \/ NextStep
    \/ CallCondition
    \/ CallPredicate
    \/ RaceStart
    \/ AfterRace
    \/ CallRecovery
    \/ \E f \in DOMAIN frames : RunStepBody(f)
    \/ \E f \in DOMAIN frames : BodySettles(f)
    \/ \E f \in DOMAIN frames : RunStepReturns(f)
    \/ Detach
    \/ AfterRunSteps
    \/ ObserverAfter

\* One iteration through Test.run: the cancellation token is created by run
\* (273-279) and nobody else holds it.
Next == Engine

Spec == Init /\ [][Next]_vars

\* One iteration through runWithCancellation, called with a token the caller
\* may request at any time.  Scripts without repeat descriptors.
InitCancel == Init /\ \A s \in DOMAIN steps : steps[s].repeat = 0

NextCancel ==
    \/ Engine
    \/ CancelWins
    \/ Cancel

CancelSpec == InitCancel /\ [][NextCancel]_vars

\* The same, with step bodies that run commands on the execution target,
\* which reports them through willRunCommand and didRunCommand.
NextObserver ==
    \/ NextCancel
    \/ \E f \in DOMAIN frames : WillRunCommand(f)
    \/ \E f \in DOMAIN frames : DidRunCommand(f)

ObserverSpec == InitCancel /\ [][NextObserver]_vars

\* One iteration through Test.run of a script without repeat descriptors
\* whose step bodies and hook functions run commands on the execution
\* target.
NextCommands ==
    \/ Engine
    \/ \E f \in DOMAIN frames : WillRunCommand(f)
    \/ \E f \in DOMAIN frames : DidRunCommand(f)
    \/ HookWillRunCommand
    \/ HookDidRunCommand

CommandSpec == InitCancel /\ [][NextCommands]_vars

\* A Looper after its construction: Looper(settings, running)
InitTestIdle ==
    /\ steps = <<>> /\ iteration = 0 /\ recoverySteps = {}
    /\ settings = [waitTimeout |-> 0, tries |-> 0, options |-> 0]
    /\ browserSettings = settings /\ failed = FALSE
    /\ subTitle = EmptySubTitle /\ summaryStep = <<>> /\ attached = FALSE
    /\ customContext = 0 /\ cursor = 1 /\ cur = 0 /\ repeatIter = <<>>
    /\ prop = <<>> /\ pc = "idle" /\ hookIdx = 0 /\ hookRunning = FALSE
    /\ hookCommands = 0 /\ hookInCommand = FALSE
    /\ hooksAbandoned = 0 /\ hookBefore = settings /\ notifications = <<>>
    /\ frames = <<>> /\ cancelRequested = FALSE
    /\ thrown = FALSE /\ cause = "none" /\ outcome = "pending"
    /\ cleanup = <<>>

InitLooper ==
    /\ loopCount \in -1..MaxLoopCount
    /\ duration \in -1..1
    /\ running \in BOOLEAN
    /\ timerArmed = (duration > 0)
    /\ cancelled = ~running
    /\ iterations = 0
    /\ lpc = "constructed"
    /\ calls = <<>>
    /\ returned = -1
    /\ stopCalled = FALSE
    /\ timerFired = FALSE
    /\ stopCalls = 0
    /\ inProgress = 0

LooperNext ==
    \/ TimerFires
    \/ LooperStop
    \/ LooperRun
    \/ LooperIterate
    \/ IteratorSettles
    \/ LooperReturns

LooperInit ==
    InitTestIdle /\ InitLooper /\ InitRunnerIdle /\ InitPersistentIdle

LooperSpec == LooperInit /\ [][LooperNext]_vars

\* A Runner whose runTestScript has been called with a script whose settings
\* give loopCount and duration
InitRunner ==
    /\ InitTestIdle
    /\ loopCount \in -1..MaxLoopCount
    /\ duration \in -1..1
    /\ iterations = 0 /\ cancelled = FALSE /\ timerArmed = FALSE
    /\ lpc = "idle" /\ calls = <<>> /\ returned = -1 /\ running = TRUE
    /\ stopCalled = FALSE /\ timerFired = FALSE /\ stopCalls = 0
    /\ inProgress = 0
    /\ rpc = "start" /\ runnerRunning = TRUE /\ cancelCalls = 0
    /\ InitPersistentIdle

RunnerNext ==
    \/ RunTestScript
    \/ RunnerBeforeRun
    \/ RunnerNewLooper
    \/ LooperIterate
    \/ IteratorSettles
    \/ LooperReturns
    \/ TimerFires
    \/ RunnerCompleted
    \/ RunnerCatch
    \/ RunnerTestCancel
    \/ RunnerStop

RunnerSpec == InitRunner /\ [][RunnerNext]_vars

\* runTestScript is not suspended for ever by the Runner's own code, and an
\* iteration in progress settles
FairRunnerSpec ==
    /\ RunnerSpec
    /\ WF_vars(RunnerCatch)
    /\ WF_vars(RunnerTestCancel)

(***************************************************************************)
(* Runner.runTestScript driving the iterations of a script: the iterator   *)
(* of lines 173-189 awaits test.run(iteration), which runs                 *)
(* runWithCancellation on the same Test object every time.                 *)
(***************************************************************************)
MaxRuns == 2         \* largest settings.loopCount of a driven script

\* lines 176-178 and 273-299, 316-324: the iterator calls test.run with the
\* Looper's iteration number; run enters runWithCancellation with a token of
\* its own, and the locals of this activation are created: the observer
\* chain, the StepIterator and the Browser (built from this.settings).  The
\* Test object keeps its settings, its summary and the steps' mutable parts.
TestRun ==
    /\ rpc = "looping"
    /\ lpc = "iterating"
    /\ pc = "idle"
    /\ iteration' = Last(calls)
    /\ pc' = "setup"
    /\ notifications' = <<>>
    /\ browserSettings' = settings
    /\ hookBefore' = settings
    /\ customContext' = 0
    /\ cursor' = 1
    /\ cur' = 0
    /\ frames' = <<>>
    /\ cancelRequested' = FALSE
    /\ thrown' = FALSE
    /\ cause' = "none"
    /\ outcome' = "pending"
    /\ cleanup' = <<>>
    /\ UNCHANGED <<steps, recoverySteps, settings, failed, subTitle,
                   summaryStep, attached, repeatIter, prop, hookIdx,
                   hookRunning, hookCommands, hookInCommand, hooksAbandoned,
                   looperVars, runnerVars,
                   persistentVars>>

\* lines 178-188 and 60: test.run settled; the iterator rethrows its error,
\* so the promise the Looper awaits rejects exactly when test.run did
IterationSettles ==
    /\ lpc = "iterating"
    /\ pc = "done"
    /\ pc' = "idle"
    /\ inProgress' = inProgress - 1
    /\ lpc' = IF outcome = "resolved" THEN "check" ELSE "rejected"
    /\ UNCHANGED <<scriptVars, settings, failed, subTitle, summaryStep,
                   attached, browserSettings, customContext, cursor, cur,
                   repeatIter, prop, hookIdx, hookRunning, hookCommands,
                   hookInCommand, hooksAbandoned,
                   hookBefore, notifications, frames, cancelRequested,
                   thrown, cause, outcome, cleanup, loopCount, duration,
                   iterations, cancelled, timerArmed, calls, returned,
                   running, stopCalled, timerFired, stopCalls, runnerVars,
                   persistentVars>>

\* runTestScript has been called with a script of up to MaxSteps steps whose
\* settings give a loop count and no duration
InitDriven ==
    /\ \E n \in 1..MaxSteps : steps \in [1..n -> StepOptions]
    /\ recoverySteps \in SUBSET {s \in DOMAIN steps : CanRun(steps[s])}
    /\ iteration = 0
    /\ settings \in [waitTimeout : {MaxHooks + 1}, tries : {MaxTries},
                     options : {0}]
    /\ browserSettings = settings /\ failed = FALSE
    /\ subTitle = EmptySubTitle /\ summaryStep = <<>> /\ attached = FALSE
    /\ customContext = 0 /\ cursor = 1 /\ cur = 0
    /\ repeatIter = [s \in DOMAIN steps |-> 0]
    /\ prop = [s \in DOMAIN steps |-> NoProp]
    /\ pc = "idle" /\ hookIdx = 0 /\ hookRunning = FALSE
    /\ hookCommands = 0 /\ hookInCommand = FALSE
    /\ hooksAbandoned = 0 /\ hookBefore = settings /\ notifications = <<>>
    /\ frames = <<>> /\ cancelRequested = FALSE
    /\ thrown = FALSE /\ cause = "none" /\ outcome = "pending"
    /\ cleanup = <<>>
    /\ loopCount \in 1..MaxRuns
    /\ duration = 0
    /\ iterations = 0 /\ cancelled = FALSE /\ timerArmed = FALSE
    /\ lpc = "idle" /\ calls = <<>> /\ returned = -1 /\ running = TRUE
    /\ stopCalled = FALSE /\ timerFired = FALSE /\ stopCalls = 0
    /\ inProgress = 0
    /\ rpc = "start" /\ runnerRunning = TRUE /\ cancelCalls = 0
    /\ InitPersistentIdle

DrivenNext ==
    \/ RunTestScript
    \/ RunnerBeforeRun
    \/ RunnerNewLooper
    \/ LooperIterate
    \/ TestRun
    \/ Engine
    \/ IterationSettles
    \/ LooperReturns
    \/ RunnerCompleted
    \/ RunnerCatch
    \/ RunnerTestCancel

DrivenSpec == InitDriven /\ [][DrivenNext]_vars

(***************************************************************************)
(* PersistentRunner (Runner.ts 209-285).  Every 'rerun-test' event of the  *)
(* commander queues a callback that calls runTestScript; each call is an   *)
(* activation with a Test and a Looper of its own, against the client of   *)
(* the one clientPromise.  PersistentRunner.stop overrides Runner.stop, so *)
(* Runner.running stays true.                                              *)
(***************************************************************************)
MaxReruns == 2       \* 'rerun-test' events the commander emits

\* a new activation of runTestScript, before its running check (line 145)
NewRun == [at |-> "start", iterations |-> 0, cancelled |-> FALSE]

\* the activations of runTestScript that have not settled
RunsInProgress == {a \in DOMAIN runs : runs[a].at # "settled"}

\* get continueLoop, for the Looper of activation a
runContinueLoop(a) ==
    LET hasInfiniteLoops == loopCount <= 0
        hasLoopsLeft == runs[a].iterations < loopCount
    IN  ~runs[a].cancelled /\ (hasLoopsLeft \/ hasInfiniteLoops)

\* rerunTest (240-260): return if clientPromise or testScriptFactory is
\* undefined, else setImmediate(callback)
rerunTest ==
    IF clientPromise /\ testScriptFactory
    THEN immediates' = immediates + 1
    ELSE UNCHANGED immediates

\* run, lines 275-279: the factory is stored, then the script is awaited
PersistentRun ==
    /\ prc = "new"
    /\ testScriptFactory' = TRUE
    /\ prc' = "launch"
    /\ UNCHANGED <<clientPromise, stopped, immediates, reruns, runs,
                   testVars, looperVars, runnerVars>>

\* run, lines 279-282: clientPromise is stored, rerunTest is called and
\* waitUntilStopped is awaited
PersistentLaunch ==
    /\ prc = "launch"
    /\ clientPromise' = TRUE
    /\ immediates' = immediates + 1
    /\ prc' = "waiting"
    /\ UNCHANGED <<testScriptFactory, stopped, reruns, runs,
                   testVars, looperVars, runnerVars>>

\* line 236: the commander emits 'rerun-test' and the listener calls
\* rerunTest
RerunCommand ==
    /\ prc # "idle"
    /\ reruns < MaxReruns
    /\ reruns' = reruns + 1
    /\ rerunTest
    /\ UNCHANGED <<prc, testScriptFactory, clientPromise, stopped, runs,
                   testVars, looperVars, runnerVars>>

\* lines 250-254: the queued callback awaits the script and calls
\* runTestScript
ImmediateCallback ==
    /\ immediates > 0
    /\ immediates' = immediates - 1
    /\ runs' = Append(runs, NewRun)
    /\ UNCHANGED <<prc, testScriptFactory, clientPromise, stopped, reruns,
                   testVars, looperVars, runnerVars>>

\* runTestScript of activation a, lines 145-172: the running check, the
\* client, new Test, enqueueScript and beforeRun (which may throw into the
\* catch block), then new Looper(settings, this.running)
RunStart(a) ==
    /\ runs[a].at = "start"
    /\ \E ok \in BOOLEAN :
         runs' = [runs EXCEPT ![a].at = IF ~runnerRunning THEN "settled"
                                        ELSE IF ok THEN "check" ELSE "catch",
                              ![a].cancelled = ~runnerRunning]
    /\ UNCHANGED <<prc, testScriptFactory, clientPromise, stopped,
                   immediates, reruns, testVars, looperVars, runnerVars>>

\* Looper.run of activation a (59-60): the iterator is invoked
RunIterate(a) ==
    /\ runs[a].at = "check"
    /\ runContinueLoop(a)
    /\ runs[a].iterations < MaxIterations
    /\ runs' = [runs EXCEPT ![a].at = "iterating", ![a].iterations = @ + 1]
    /\ UNCHANGED <<prc, testScriptFactory, clientPromise, stopped,
                   immediates, reruns, testVars, looperVars, runnerVars>>

\* the iteration of activation a settles (173-189); a rejection is caught
\* by the catch block of runTestScript
RunIterationSettles(a) ==
    /\ runs[a].at = "iterating"
    /\ \E ok \in BOOLEAN :
         runs' = [runs EXCEPT ![a].at = IF ok THEN "check" ELSE "catch"]
    /\ UNCHANGED <<prc, testScriptFactory, clientPromise, stopped,
                   immediates, reruns, testVars, looperVars, runnerVars>>

\* activation a leaves the loop (62-63, 191-192) or its catch block
\* (193-205)
RunSettles(a) ==
    /\ \/ runs[a].at = "check" /\ ~runContinueLoop(a)
       \/ runs[a].at = "catch"
    /\ runs' = [runs EXCEPT ![a].at = "settled"]
    /\ UNCHANGED <<prc, testScriptFactory, clientPromise, stopped,
                   immediates, reruns, testVars, looperVars, runnerVars>>

\* PersistentRunner.stop (262-264)
PersistentStop ==
    /\ prc # "idle"
    /\ ~stopped
    /\ stopped' = TRUE
    /\ UNCHANGED <<prc, testScriptFactory, clientPromise, immediates,
                   reruns, runs, testVars, looperVars, runnerVars>>

\* waitUntilStopped (266-273) finds stopped set and run returns
PersistentReturns ==
    /\ prc = "waiting"
    /\ stopped
    /\ prc' = "returned"
    /\ UNCHANGED <<testScriptFactory, clientPromise, stopped, immediates,
                   reruns, runs, testVars, looperVars, runnerVars>>

\* a PersistentRunner with a commander, whose run has been called with a
\* script whose settings give a loop count (0: unbounded) and no duration
InitPersistent ==
    /\ InitTestIdle
    /\ loopCount \in 0..MaxRuns
    /\ duration = 0
    /\ iterations = 0 /\ cancelled = FALSE /\ timerArmed = FALSE
    /\ lpc = "idle" /\ calls = <<>> /\ returned = -1 /\ running = TRUE
    /\ stopped = FALSE /\ timerFired = FALSE /\ stopCalls = 0
    /\ stopCalled = FALSE /\ inProgress = 0
    /\ InitRunnerIdle
    /\ prc = "new" /\ testScriptFactory = FALSE /\ clientPromise = FALSE
    /\ immediates = 0 /\ reruns = 0 /\ runs = <<>>

PersistentNext ==
    \/ PersistentRun
    \/ PersistentLaunch
    \/ RerunCommand
    \/ ImmediateCallback
    \/ \E a \in DOMAIN runs : RunStart(a)
    \/ \E a \in DOMAIN runs : RunIterate(a)
    \/ \E a \in DOMAIN runs : RunIterationSettles(a)
    \/ \E a \in DOMAIN runs : RunSettles(a)
    \/ PersistentStop
    \/ PersistentReturns

PersistentSpec == InitPersistent /\ [][PersistentNext]_vars

(***************************************************************************)
(* Properties                                                              *)
(***************************************************************************)
CountRows(summary, s, r) ==
    Cardinality({i \in DOMAIN summary : summary[i] = Row(s, r)})

\* the executions of step s whose body has settled with the given outcome
Settled(s, error) ==
    {f \in DOMAIN frames : /\ frames[f].step = s
                           /\ frames[f].error = error
                           /\ frames[f].stage \in {"afterStep", "done"}}

\* the iteration was aborted by callRecovery returning false for a step
\* without a registered recovery sequence
AbortedWithoutRecovery ==
    /\ cause = "recovery"
    /\ Last(frames).step \notin recoverySteps

\* C1: when a step fails and no recovery is registered for it, no later step
\* is started, the summary holds one FAILED row for the step and exactly one
\* UNEXECUTED row for every later step, and the iteration rejects.
C1_AbortAfterUnrecoverableFailure ==
    (pc = "done" /\ AbortedWithoutRecovery) =>
        LET s == Last(frames).step
        IN  /\ \A f \in DOMAIN frames : frames[f].step <= s
            /\ CountRows(summaryStep, s, "FAILED") = 1
            /\ \A t \in (s + 1)..Len(steps) :
                   /\ CountRows(summaryStep, t, "UNEXECUTED") = 1
                   /\ CountRows(summaryStep, t, "PASSED") = 0
                   /\ CountRows(summaryStep, t, "FAILED") = 0
            /\ outcome = "rejected"

\* the executor has just been told that the recovery of the failed step cur
\* succeeded
Recovered ==
    /\ pc = "afterEach"
    /\ frames # <<>>
    /\ Last(frames).step = cur
    /\ Last(frames).error

\* C2: after a successful recovery the failed flag is clear, nothing has been
\* thrown and the afterEach hooks are next; every failed execution has one
\* FAILED row whatever the number of recovery attempts; and when nothing
\* else throws, every step is handed out and every step that passes its gate
\* (and has no predicate) is executed.
C2_RecoveryContinues ==
    /\ Recovered =>
          /\ ~failed
          /\ ~thrown
          /\ hookIdx >= 1
          /\ Last(summaryStep) = Row(cur, "FAILED")
    /\ \A s \in DOMAIN steps :
          CountRows(summaryStep, s, "FAILED") = Cardinality(Settled(s, TRUE))
    /\ (pc = "done" /\ cause = "none") =>
          /\ ~thrown
          /\ cursor = Len(steps) + 1
          /\ \A t \in DOMAIN steps :
                (/\ callCondition(t, iteration)
                 /\ ~steps[t].predicate
                 /\ ~steps[t].condition) =>
                    \E f \in DOMAIN frames : frames[f].step = t

C2_Witness ==
    /\ pc = "done"
    /\ outcome = "resolved"
    /\ Len(steps) = 2
    /\ Len(frames) = 2
    /\ frames[1].step = 1 /\ frames[1].error
    /\ frames[2].step = 2
    /\ prop[1].recoveryTries = MaxTries
    /\ summaryStep[1] = Row(1, "FAILED")
    /\ CountRows(summaryStep, 1, "FAILED") = 1

C4_FailureBeforeStepLoop ==
    (pc = "done" /\ cause \in {"data", "beforeAll"}) =>
        /\ frames = <<>>
        /\ outcome = "rejected"
        /\ \A i \in DOMAIN summaryStep : summaryStep[i].result = "UNEXECUTED"
        /\ \A t \in DOMAIN steps : CountRows(summaryStep, t, "UNEXECUTED") = 1

\* C5: a step whose body lost the race against the cancellation token never
\* gets a PASSED or FAILED row (its outcome is never recorded).
C5_NoOutcomeForAbandonedStep ==
    \A f \in DOMAIN frames :
        frames[f].abandoned \in {"beforeStep", "body"} =>
            frames[f].stage \notin {"afterStep", "done"}

\* C6: once the token has won a step's race, no beforeEach hook, gate,
\* predicate or body of a later step is started in the iteration.
C6_NoStepAfterCancellation ==
    \A f \in DOMAIN frames :
        frames[f].abandoned # "no" =>
            /\ f = Len(frames)
            /\ pc \notin {"beforeEach", "callCondition", "callPredicate",
                          "race", "racing"}

\* C7: when the body of a step settles (it passes or it throws), the
\* execution target's settings are again what they were when the body was
\* called.
C7_SettingsRestored ==
    [][\A f \in DOMAIN frames :
          (frames[f].stage = "body" /\ frames'[f].stage = "afterStep") =>
              browserSettings' = frames[f].before]_vars

C7_Witness ==
    \E f \in DOMAIN frames :
        /\ frames[f].stage = "afterStep"
        /\ frames[f].error
        /\ steps[frames[f].step].waitTimeout > 0
        /\ browserSettings = frames[f].before
        /\ browserSettings # stepSettings(frames[f].step)

\* C8: the teardown summary pass gives an unreached step whose repeat
\* descriptor has 0 < iteration exactly count - iteration UNEXECUTED rows and
\* leaves its iteration at 0.
C8_RemainingRepetitions ==
    [][(pc = "afterRunSteps" /\ pc' = "observerAfter") =>
          \A s \in cursor..Len(steps) :
              (steps[s].repeat > 0 /\ repeatIter[s] > 0) =>
                  /\ CountRows(summaryStep', s, "UNEXECUTED")
                       = CountRows(summaryStep, s, "UNEXECUTED")
                           + steps[s].repeat - repeatIter[s]
                  /\ repeatIter'[s] = 0]_vars

\* a repeat step ran once, the iteration was aborted, and the summary pass
\* has added the rows of the two repetitions that were left
C8_Witness ==
    \E s \in DOMAIN steps :
        /\ pc = "observerAfter"
        /\ steps[s].repeat = MaxRepeat
        /\ Cardinality(Settled(s, FALSE)) = 1
        /\ Settled(s, TRUE) = {}
        /\ CountRows(summaryStep, s, "UNEXECUTED") = MaxRepeat - 1
        /\ repeatIter[s] = 0

\* the sequence <<1, 2, ..., n>>
UpTo(n) == [i \in 1..n |-> i]

NoInterference == ~stopCalled /\ ~timerFired

\* C9 as stated: for loopCount = N > 0, without duration expiry and stop(),
\* a run that returns has invoked the iterator with 1..N and returns N.
C9_Original ==
    (lpc = "returned" /\ loopCount > 0 /\ NoInterference) =>
        /\ calls = UpTo(loopCount)
        /\ returned = loopCount

\* C9 amended: the same for a Looper constructed with running = true.
C9_RunsLoopCountTimes ==
    (lpc = "returned" /\ loopCount > 0 /\ NoInterference /\ running) =>
        /\ calls = UpTo(loopCount)
        /\ returned = loopCount

C9_Witness ==
    /\ lpc = "returned"
    /\ loopCount = MaxLoopCount
    /\ NoInterference
    /\ running
    /\ returned = MaxLoopCount

\* C10 as stated: for loopCount <= 0, duration <= 0 and no stop(), run never
\* returns, and whenever the loop condition is checked it holds.
C10_Original ==
    (loopCount <= 0 /\ duration <= 0 /\ ~stopCalled) =>
        /\ lpc # "returned"
        /\ lpc = "check" => continueLoop

\* C10 amended: the same for a Looper constructed with running = true.
C10_NeverReturns ==
    (loopCount <= 0 /\ duration <= 0 /\ ~stopCalled /\ running) =>
        /\ lpc # "returned"
        /\ lpc = "check" => continueLoop

C10_Witness ==
    /\ loopCount = 0
    /\ duration <= 0
    /\ ~stopCalled
    /\ running
    /\ lpc = "check"
    /\ iterations >= 2

\* C11: once the duration timer has fired the cancelled flag stays set, the
\* loop condition is false at every later check, no iterator invocation is
\* started any more, and from the check run can only return.
C11_NoIterationAfterTimer ==
    [][/\ timerFired => (cancelled' /\ calls' = calls)
       /\ (timerFired' /\ lpc' = "check") => ~continueLoop'
       /\ (timerFired /\ lpc = "check") => lpc' \in {"check", "returned"}]_vars

\* an unbounded Looper with a duration ran two iterations, the timer fired
\* during the second, and run returned 2
C11_Witness ==
    /\ duration > 0
    /\ loopCount <= 0
    /\ running
    /\ ~stopCalled
    /\ timerFired
    /\ lpc = "returned"
    /\ returned = 2

\* C12: after the first stop() the cancelled flag stays set however often
\* stop() is called again, the loop condition is false at every later check
\* and no iterator invocation is started; a call of stop() leaves the
\* position of run and the invocation in progress alone, and a second call
\* changes nothing of the Looper.
C12_StopIsOneWay ==
    [][/\ stopCalled => (cancelled' /\ calls' = calls /\ ~continueLoop')
       /\ stopCalls' # stopCalls =>
             /\ cancelled' /\ ~continueLoop'
             /\ lpc' = lpc /\ inProgress' = inProgress
             /\ iterations' = iterations /\ timerArmed' = timerArmed
       /\ (stopCalls > 0 /\ stopCalls' # stopCalls) =>
             cancelled' = cancelled]_vars

\* stop() was called twice during the first invocation, which then settled,
\* and run returned 1 although more loops were left
C12_Witness ==
    /\ stopCalls = MaxStops
    /\ ~timerFired
    /\ running
    /\ loopCount = MaxLoopCount
    /\ lpc = "returned"
    /\ returned = 1
    /\ calls = <<1>>

\* C13: at most one iterator invocation is in progress; an invocation is
\* started only at the loop check, when none is in progress; and after an
\* invocation has rejected no further invocation is started.
C13_InvocationsNeverOverlap ==
    [][/\ inProgress' <= 1
       /\ calls' # calls => (inProgress = 0 /\ lpc = "check")
       /\ lpc = "rejected" => (lpc' = "rejected" /\ calls' = calls)]_vars

\* the second of MaxLoopCount invocations rejected: run is left with two
\* invocations made and none in progress
C13_Witness ==
    /\ lpc = "rejected"
    /\ loopCount = MaxLoopCount
    /\ running
    /\ NoInterference
    /\ calls = <<1, 2>>
    /\ inProgress = 0

\* the end of the notifications of the execution that notified beforeStep
\* at position i: the position of its afterStep, or past the end of the log
SegmentEnd(n, i) ==
    LET later == {j \in (i + 1)..Len(n) :
                     n[j] = Notification("afterStep", n[i].step)}
    IN  IF later = {} THEN Len(n) + 1
        ELSE CHOOSE j \in later : \A k \in later : j <= k

StepOutcomes == {"onStepPassed", "onStepError"}

StepActions == {"beforeStepAction", "afterStepAction"}

\* C14: the notifications of an executed step come in the order beforeStep,
\* beforeStepAction/afterStepAction pairs, one of onStepPassed and
\* onStepError, afterStep, no notification of another step comes between the
\* step's beforeStep and its afterStep, and every step notification belongs
\* to such a sequence.
C14_StepNotificationsInOrder ==
    LET n == notifications IN
    \A i \in DOMAIN n :
        IF n[i].kind = "beforeStep"
        THEN LET e == SegmentEnd(n, i)
                 inside == {k \in (i + 1)..(e - 1) : k <= Len(n)}
                 outcomes == {k \in inside : n[k].kind \in StepOutcomes}
             IN  /\ \A k \in inside :
                        /\ n[k].step = n[i].step
                        /\ n[k].kind \in StepActions \cup StepOutcomes
                        /\ n[k].kind = "afterStepAction" =>
                               n[k - 1].kind = "beforeStepAction"
                        /\ n[k].kind = "beforeStepAction" =>
                               (k + 1 \in inside =>
                                   n[k + 1].kind = "afterStepAction")
                 /\ Cardinality(outcomes) <= 1
                 /\ e <= Len(n) => (Cardinality(outcomes) = 1
                                      /\ n[e - 1].kind \in StepOutcomes)
        ELSE \E b \in 1..(i - 1) :
                 /\ n[b] = Notification("beforeStep", n[i].step)
                 /\ SegmentEnd(n, b) >= i

\* C15: once test.run has rejected for an iteration, the Looper starts no
\* further iteration in that run of runTestScript, whatever loopCount allows;
\* runTestScript then leaves through its catch block, where it calls
\* test.cancel() once, and it does settle.
C15_NoRetryAfterRejection ==
    /\ [][/\ lpc = "rejected" =>
                (lpc' = "rejected" /\ calls' = calls /\ iterations' = iterations)
          /\ (lpc = "rejected" /\ rpc # "settled" /\ rpc' = "settled") =>
                (rpc = "catch" /\ failed' /\ cancelCalls' = cancelCalls + 1)]_vars
    /\ (lpc = "rejected") ~> (rpc = "settled" /\ cancelCalls = 1)

\* the first of MaxLoopCount iterations rejected and runTestScript settled
\* after one call of test.cancel()
C15_Witness ==
    /\ rpc = "settled"
    /\ lpc = "rejected"
    /\ loopCount = MaxLoopCount
    /\ calls = <<1>>
    /\ runnerRunning
    /\ ~timerFired
    /\ failed
    /\ cancelCalls = 1

\* C16: the teardown summary pass adds exactly one UNEXECUTED row for every
\* unreached step that has no repeat descriptor or whose repeat descriptor
\* has iteration = 0.
C16_OneRowForUnreachedStep ==
    [][(pc = "afterRunSteps" /\ pc' = "observerAfter") =>
          \A s \in cursor..Len(steps) :
              (steps[s].repeat = 0 \/ repeatIter[s] = 0) =>
                  CountRows(summaryStep', s, "UNEXECUTED")
                      = CountRows(summaryStep, s, "UNEXECUTED") + 1]_vars

\* C17: no step of an iteration changes Test.settings.
C17_SettingsNeverMutated == [][settings' = settings]_vars

\* C18: when runHookFn finishes a hook sequence (all hooks done, a hook
\* threw, a hook timed out), the settings of the execution target are those
\* it had when the sequence started.
C18_HookOverrideIsTemporary ==
    [][(pc \in HookPhases /\ pc' # pc /\ MaxHooks > 0) =>
          browserSettings' = hookBefore]_vars

\* the step bodies that have been called and have not settled
BodiesInProgress == {f \in DOMAIN frames : frames[f].stage = "body"}

\* C19: at any instant at most one step body or hook function is running
\* against the execution target, the functions the engine has stopped
\* waiting for included.
C19_SingleWriter ==
    Cardinality(BodiesInProgress) + hooksAbandoned
        + (IF hookRunning THEN 1 ELSE 0) <= 1

\* C20: when callCondition excludes a step, the executor starts no body and
\* records exactly one row for the step: UNEXECUTED for a pending step and
\* for a once-step on an iteration beyond the first, SKIPPED for a skipped
\* step.
C20_ExcludedStepHasOneRow ==
    [][(pc = "callCondition" /\ pc' = "next") =>
          /\ frames' = frames
          /\ Len(summaryStep') = Len(summaryStep) + 1
          /\ Last(summaryStep').stepName = cur
          /\ (steps[cur].pending \/ (steps[cur].once /\ iteration > 1)) =>
                 Last(summaryStep').result = "UNEXECUTED"
          /\ steps[cur].skip => Last(summaryStep').result = "SKIPPED"]_vars

\* C21: for a Looper constructed with duration > 0, the duration timer is no
\* longer armed once Looper.run has finished, whether it returned (loop count
\* reached, stop(), duration expiry) or the iterator rejected.
C21_TimerClearedWhenFinished ==
    (duration > 0 /\ lpc \in {"returned", "rejected"}) => ~timerArmed

\* the notifications of after(test) received by the observer chain of the
\* latest iteration
AfterNotified == Cardinality({i \in DOMAIN cleanup : cleanup[i] = "after"})

\* C22: once an iteration driven by runTestScript has settled, and still when
\* runTestScript has settled after it, the observer chain of that iteration
\* has been notified of after(test) exactly once, whether the iteration
\* succeeded or failed.
C22_AfterNotifiedOnce ==
    (iteration > 0 /\ pc = "idle") => AfterNotified = 1

\* C23: on a PersistentRunner at most one activation of runTestScript, and
\* so at most one iteration, is in progress at any time, also when a
\* 'rerun-test' event arrives while a previous run is still iterating.
C23_OneRunAtATime ==
    /\ Cardinality(RunsInProgress) <= 1
    /\ Cardinality({a \in DOMAIN runs : runs[a].at = "iterating"}) <= 1

\* C24: after Runner.stop() has been called the Runner starts no further
\* iteration, whether the call came before the running check, while the
\* client or beforeRun was awaited (before the Looper is constructed), or
\* between two iterations; an iteration in progress may still complete.
C24_NoIterationAfterStop ==
    [][~runnerRunning => (calls' = calls /\ iterations' = iterations)]_vars

\* stop() was called while beforeRun was awaited, when there was no Looper
\* to stop; the Looper constructed afterwards with the largest loop count
\* returned without an iteration
C24_Witness ==
    /\ rpc = "settled"
    /\ lpc = "returned"
    /\ ~runnerRunning
    /\ ~running
    /\ stopCalls = 0
    /\ loopCount = MaxLoopCount
    /\ ~timerFired
    /\ calls = <<>>
    /\ returned = 0

\* C25: every beforeStepAction and afterStepAction notification for a step S
\* comes after S's beforeStep with nothing but step-action notifications in
\* between, so before S's onStepPassed or onStepError: it stems from the
\* body of S, never from a beforeAll, beforeEach, afterEach or afterAll hook.
C25_StepActionsOnlyFromBody ==
    \A i \in DOMAIN notifications :
        notifications[i].kind \in StepActions =>
            \E j \in 1..(i - 1) :
                /\ notifications[j] =
                       Notification("beforeStep", notifications[i].step)
                /\ \A k \in (j + 1)..(i - 1) :
                       notifications[k].kind \in StepActions

====
